---- MODULE Spec2Model ----
(***************************************************************************)
(* Model of src/main_simulation.py: the aerodynamic database, the          *)
(* projectile's per-step update and the simulation loop.                   *)
(*                                                                         *)
(* The program computes in IEEE doubles; the model computes in fixed point *)
(* over the integers, in units chosen so that every quantity the           *)
(* integrator adds up is an exact integer:                                 *)
(*   time          tick  = 0.01 s          (Config.dt = 1 tick)            *)
(*   velocity      1e-4 m/s                                                *)
(*   acceleration  1e-2 m/s^2              (acceleration * ticks = velocity) *)
(*   position      metres and micrometres  (velocity * ticks = micrometres) *)
(*   angle         microradians                                            *)
(*   sin, cos      1e-4                                                    *)
(*   coefficients, Mach, air density   1e-3                                *)
(*   force         0.1 N                                                   *)
(* exp, arctan2, sin, cos and sqrt are table/iteration approximations of   *)
(* the library functions the source calls.                                 *)
(***************************************************************************)
EXTENDS Integers, Sequences, FiniteSets, TLC

\* ------------------------------------------------------------ state

VARIABLES
    file,       \* aerodynamics.csv
    config,     \* Config: dt, max_time, target_pos
    pc,         \* "start", "loop" (the while test), "done" (returned); "caller" of
                \* update; "new", "built", "queried" for an AeroDatabase alone
    aero,       \* missile.aero
    pos,        \* missile.pos
    vel,        \* missile.vel
    history,    \* history: x, y, mach
    t,          \* t
    flying,     \* the last value update returned
    calls,      \* the number of update calls made
    last,       \* the last update call: its arguments, the state and the previous
                \* return value before it, the angle of attack it applied
    run,        \* which call of run_simulation this is
    first,      \* what the first call of run_simulation returned
    query       \* the last get_cd / get_cl_alpha query and its answers

vars ==
    <<file, config, pc, aero, pos, vel, history, t, flying, calls, last, run, first,
      query>>

\* ------------------------------------------------------------ arithmetic

Abs(a) == IF a < 0 THEN -a ELSE a

\* Division rounding toward zero (the sign of a quotient is the sign a float
\* division gives it).
TDiv(a, b) == IF a >= 0 THEN a \div b ELSE -((-a) \div b)

\* floor(sqrt(n)) by bisection on [lo, hi), lo*lo <= n < hi*hi.
RECURSIVE SqrtIter(_, _, _)
SqrtIter(n, lo, hi) ==
    IF hi - lo <= 1 THEN lo
    ELSE LET mid == (lo + hi) \div 2
         IN  IF mid * mid <= n THEN SqrtIter(n, mid, hi) ELSE SqrtIter(n, lo, mid)

Isqrt(n) == SqrtIter(n, 0, 46341)

\* A position component: m metres plus u micrometres, 0 <= u < 1000000.
Metres(m) == [m |-> m, u |-> 0]

\* p + d micrometres, carried into the metres.
PosAddMicro(p, d) ==
    [m |-> p.m + ((p.u + d) \div 1000000), u |-> (p.u + d) % 1000000]

\* p + v * dt: v in 1e-4 m/s, dt in ticks; v = vh * 10000 + vl, so
\* v * dt micrometres = (vh * dt) centimetres + (vl * dt) micrometres.
PosAdvance(p, v, dt) ==
    LET vh == v \div 10000
        vl == v % 10000
        cm == vh * dt
    IN  PosAddMicro([m |-> p.m + (cm \div 100), u |-> p.u],
                    (cm % 100) * 10000 + vl * dt)

\* ------------------------------------------------------------ library functions

Pi == 3141593
HalfPi == 1570796

\* arctan(k/32) in microradians, k = 0 .. 32.
AtanTable ==
    << 0, 31240, 62419, 93477, 124355, 154997, 185348, 215358, 244979,
       274167, 302885, 331096, 358771, 385883, 412410, 438337, 463648,
       488334, 512389, 535811, 558599, 580756, 602287, 623199, 643501,
       663203, 682317, 700854, 718830, 736257, 753151, 769526, 785398 >>

\* Halve num and den together until den < 32768 (a common scale does not
\* change their ratio).
RECURSIVE Normalise(_, _)
Normalise(num, den) ==
    IF den < 32768 THEN <<num, den>> ELSE Normalise(num \div 2, den \div 2)

\* arctan(num/den) for 0 <= num <= den, den > 0: linear interpolation in the table.
Atan01(num, den) ==
    LET nd   == Normalise(num, den)
        z    == (nd[1] * 65536) \div nd[2]
        idx  == z \div 2048
        frac == z % 2048
    IN  IF idx >= 32 THEN AtanTable[33]
        ELSE AtanTable[idx + 1]
             + ((AtanTable[idx + 2] - AtanTable[idx + 1]) * frac) \div 2048

\* arctan of y/x for x >= 0, y >= 0, not both 0: in [0, pi/2].
AtanQuadrant(y, x) ==
    IF y <= x THEN Atan01(y, x) ELSE HalfPi - Atan01(x, y)

\* np.arctan2(y, x), in (-pi, pi]; arctan2(0, 0) = 0.
Arctan2(y, x) ==
    IF x = 0 /\ y = 0 THEN 0
    ELSE LET a == AtanQuadrant(Abs(y), Abs(x))
             b == IF x >= 0 THEN a ELSE Pi - a
         IN  IF y >= 0 THEN b ELSE -b

\* 10000 * sin(k * 49088 microradians), k = 0 .. 32.
SinTable ==
    << 0, 491, 980, 1467, 1951, 2430, 2903, 3369, 3827, 4276, 4714, 5141,
       5556, 5957, 6344, 6716, 7071, 7410, 7730, 8032, 8315, 8577, 8819,
       9040, 9239, 9415, 9569, 9700, 9808, 9892, 9952, 9988, 10000 >>

\* sin(a) for 0 <= a <= pi/2.
SinQuadrant(a) ==
    LET idx  == a \div 49088
        frac == a % 49088
    IN  IF idx >= 32 THEN SinTable[33]
        ELSE SinTable[idx + 1]
             + ((SinTable[idx + 2] - SinTable[idx + 1]) * frac) \div 49088

\* np.sin(a), -pi <= a <= pi.
Sin(a) ==
    LET b == Abs(a)
        s == IF b <= HalfPi THEN SinQuadrant(b) ELSE SinQuadrant(Pi - b)
    IN  IF a >= 0 THEN s ELSE -s

\* np.cos(a), -pi <= a <= pi.
Cos(a) ==
    LET b == Abs(a)
    IN  IF b <= HalfPi THEN SinQuadrant(HalfPi - b) ELSE -SinQuadrant(b - HalfPi)

\* 1000000 * exp(-k * 500 / 8500), k = 0 .. 17.
ExpTable ==
    << 1000000, 942873, 889010, 838223, 790338, 745189, 702619, 662480,
       624635, 588951, 555306, 523583, 493673, 465471, 438880, 413808,
       390169, 367879 >>

\* 1000000 * exp(-k), k = 0 .. 14.
ExpIntTable ==
    << 1000000, 367879, 135335, 49787, 18316, 6738, 2479, 912, 335, 123, 45,
       17, 6, 2, 1 >>

\* 1000 * exp(k), k = 1 .. 7.
ExpGrowTable == << 2718, 7389, 20086, 54598, 148413, 403429, 1096633 >>

\* 1000000 * np.exp(-h / 8500.0), h in metres above -59500: exp(-n) * exp(-r/8500)
\* with h = 8500 n + r, 0 <= r < 8500.
ExpScaleHeight(h) ==
    LET n    == h \div 8500
        r    == h % 8500
        idx  == r \div 500
        frac == r % 500
        e    == ExpTable[idx + 1]
                - ((ExpTable[idx + 1] - ExpTable[idx + 2]) * frac) \div 500
    IN  IF n = 0 THEN e
        ELSE IF n > 14 THEN 0
        ELSE IF n < 0 THEN (e \div 1000) * ExpGrowTable[-n]
        ELSE (e \div 1000) * (ExpIntTable[n + 1] \div 1000)

\* np.radians(10) in microradians.
Radians10 == 174533

\* np.clip(a, lo, hi).
Clip(a, lo, hi) == IF a < lo THEN lo ELSE IF a > hi THEN hi ELSE a

\* ------------------------------------------------------------ AeroDatabase

\* A float of the coefficient tables: a finite value v (in 1e-3), NaN, or an
\* infinity of sign v.
Num(v) == [k |-> "num", v |-> v]
NaN == [k |-> "nan", v |-> 0]
Inf(sign) == [k |-> "inf", v |-> sign]

IsNum(f) == f.k = "num"

\* The file at filepath: absent, or a header line followed by rows of cells; a
\* cell holds a number (Num) or text that is no number (NaN stands for it: that is
\* what genfromtxt makes of it).
NoFile == [exists |-> FALSE, rows |-> <<>>]
File(rows) == [exists |-> TRUE, rows |-> rows]

\* np.genfromtxt(filepath, delimiter=',', skip_header=1): raises when the file is
\* absent or when a row has not the number of columns of the first row; a cell
\* that is no number becomes NaN. No row or one row gives a 1-D array, a single
\* column too.
genfromtxt(f) ==
    IF ~f.exists THEN [raised |-> TRUE, ndim |-> 0, data |-> <<>>]
    ELSE IF \E i \in 1..Len(f.rows) : Len(f.rows[i]) # Len(f.rows[1])
    THEN [raised |-> TRUE, ndim |-> 0, data |-> <<>>]
    ELSE [raised |-> FALSE,
          ndim   |-> IF Len(f.rows) >= 2 /\ Len(f.rows[1]) >= 2 THEN 2 ELSE 1,
          data   |-> f.rows]

\* data[:, c] (c counted from 0): IndexError unless data is 2-D with more than c
\* columns.
ColumnRaises(arr, c) == IF arr.ndim # 2 THEN TRUE ELSE Len(arr.data[1]) <= c

\* Cell c (counted from 0) of each of the rows.
RECURSIVE CellsOf(_, _)
CellsOf(rows, c) ==
    IF rows = <<>> THEN <<>> ELSE <<Head(rows)[c + 1]>> \o CellsOf(Tail(rows), c)

Column(arr, c) == CellsOf(arr.data, c)

\* x sorts before y in np.argsort: NaN sorts last.
FloatLess(x, y) == IsNum(x) /\ (~IsNum(y) \/ x.v < y.v)

\* Insert index i into the index sequence s, sorted by x, after every index whose
\* key is not greater (a stable sort, kind="mergesort").
RECURSIVE InsertSorted(_, _, _)
InsertSorted(s, i, x) ==
    IF s = <<>> THEN <<i>>
    ELSE IF FloatLess(x[i], x[Head(s)]) THEN <<i>> \o s
    ELSE <<Head(s)>> \o InsertSorted(Tail(s), i, x)

RECURSIVE ArgsortUpTo(_, _)
ArgsortUpTo(x, n) ==
    IF n = 0 THEN <<>> ELSE InsertSorted(ArgsortUpTo(x, n - 1), n, x)

Argsort(x) == ArgsortUpTo(x, Len(x))

\* x[ind]
RECURSIVE Take(_, _)
Take(x, ind) ==
    IF ind = <<>> THEN <<>> ELSE <<x[Head(ind)]>> \o Take(x, Tail(ind))

\* interp1d(x, y, kind='linear', fill_value="extrapolate"): x and y sorted by x.
interp1d(x, y) ==
    LET ind == Argsort(x)
    IN  [kind |-> "interp", x |-> Take(x, ind), y |-> Take(y, ind), c |-> 0]

\* lambda m: c
Constant(c) == [kind |-> "const", x |-> <<>>, y |-> <<>>, c |-> c]

\* np.searchsorted(x, m): the number of entries of x below m.
Searchsorted(x, m) == Cardinality({i \in 1..Len(x) : IsNum(x[i]) /\ x[i].v < m})

\* slope * (m - x_lo) + y_lo with slope = (y_hi - y_lo) / (x_hi - x_lo), as IEEE
\* arithmetic gives it: NaN from a NaN operand, from 0/0 and from inf * 0; an
\* infinity from a division of a nonzero by zero.
LinearSegment(xlo, xhi, ylo, yhi, m) ==
    IF ~IsNum(xlo) \/ ~IsNum(xhi) \/ ~IsNum(ylo) \/ ~IsNum(yhi) THEN NaN
    ELSE IF xhi.v = xlo.v
    THEN IF yhi.v = ylo.v \/ m = xlo.v THEN NaN
         ELSE Inf(IF (yhi.v > ylo.v) = (m > xlo.v) THEN 1 ELSE -1)
    ELSE Num(ylo.v + TDiv((yhi.v - ylo.v) * (m - xlo.v), xhi.v - xlo.v))

\* curve(m): the constant, or the segment that brackets m, the first or the last
\* segment beyond the table (extrapolation).
CallCurve(curve, m) ==
    IF curve.kind = "const" THEN Num(curve.c)
    ELSE LET hi == Clip(Searchsorted(curve.x, m), 1, Len(curve.x) - 1) + 1
             lo == hi - 1
         IN  LinearSegment(curve.x[lo], curve.x[hi], curve.y[lo], curve.y[hi], m)

FallbackCd == 670
FallbackCl == 2000

Fallback == [cd_curve |-> Constant(FallbackCd), cl_curve |-> Constant(FallbackCl)]

\* Whether the try block of AeroDatabase.__init__ raises: genfromtxt, or one of
\* data[:, 0], data[:, 2], data[:, 3].
LoadRaises(f) ==
    LET data == genfromtxt(f)
    IN  IF data.raised THEN TRUE
        ELSE \E c \in {0, 2, 3} : ColumnRaises(data, c)

\* AeroDatabase(filepath): the two curves; the fallback when the try block raises.
AeroDatabase(f) ==
    IF LoadRaises(f) THEN Fallback
    ELSE LET data == genfromtxt(f)
         IN  [cd_curve |-> interp1d(Column(data, 0), Column(data, 2)),
              cl_curve |-> interp1d(Column(data, 0), Column(data, 3))]

get_cd(db, mach) == CallCurve(db.cd_curve, mach)

get_cl_alpha(db, mach) == CallCurve(db.cl_curve, mach)

\* ------------------------------------------------------------ Config

\* Config.dt = 0.01 s, Config.max_time = 100.0 s, Config.g = 9.81 m/s^2,
\* Config.mass = 43.5 kg, Config.area = pi * (0.155/2)^2 = 0.018869 m^2,
\* Config.target_pos = (15000, 500, 0) m.
ConfigDt == 1
ConfigMaxTime == 10000
G == 981
Mass == 435
Area == 1887
ConfigTarget == [i \in 0..2 |-> IF i = 0 THEN 15000 ELSE IF i = 1 THEN 500 ELSE 0]

\* ------------------------------------------------------------ Projectile

\* Projectile.__init__: self.pos, self.vel.
InitPos == [i \in 0..2 |-> IF i = 1 THEN Metres(2000) ELSE Metres(0)]
InitVel == [i \in 0..2 |-> IF i = 0 THEN 6800000 ELSE 0]

\* rho = 1.225 * np.exp(-h / 8500.0), in 1e-3 kg/m^3.
Rho(h) == (1225 * ExpScaleHeight(h)) \div 1000000

\* np.linalg.norm(vel), in 0.1 m/s.
Norm(v) ==
    LET d(i) == TDiv(v[i], 1000)
    IN  Isqrt(d(0) * d(0) + d(1) * d(1) + d(2) * d(2))

\* speed / 340.0, in 1e-3.
Mach(speed) == (speed * 10) \div 34

\* r_tm = target_pos - self.pos, in metres.
RelativeTarget(tgt, p) == [i \in 0..2 |-> tgt[i] - p[i].m]

\* los_angle = np.arctan2(r_tm[1], r_tm[0])
LosAngle(tgt, p) ==
    LET r_tm == RelativeTarget(tgt, p)
    IN  Arctan2(r_tm[1], r_tm[0])

\* vel_angle = np.arctan2(self.vel[1], self.vel[0]); gamma is the same expression.
VelAngle(v) == Arctan2(v[1], v[0])

\* N = 3.0; alpha_cmd = N * (los_angle - vel_angle), before the limit.
NavGain == 3

\* RawAlpha as it would be with the angle difference wrapped into (-pi, pi].
RawAlpha_Wrapped(p, v, tgt) ==
    LET d == LosAngle(tgt, p) - VelAngle(v)
    IN  NavGain * (IF d > Pi THEN d - 2 * Pi ELSE IF d <= -Pi THEN d + 2 * Pi ELSE d)

RawAlpha(p, v, tgt) ==
    NavGain * (LosAngle(tgt, p) - VelAngle(v))

\* alpha_cmd = np.clip(alpha_cmd, -np.radians(10), np.radians(10))
LimitAlpha(alpha) == Clip(alpha, -Radians10, Radians10)

AlphaCmd(p, v, tgt) == LimitAlpha(RawAlpha(p, v, tgt))

\* LiftCoefficient as it would be with the slope written in as the constant 2.0.
LiftCoefficient_FixedSlope(Cl_slope, alpha_cmd) == TDiv(2000 * alpha_cmd, 1000000)

\* Cl = Cl_slope * alpha_cmd, in 1e-3.
LiftCoefficient(Cl_slope, alpha_cmd) == TDiv(Cl_slope * alpha_cmd, 1000000)

\* q = 0.5 * rho * speed**2 * Config.area, in 0.1 N.
DynamicPressure(rho, speed) ==
    LET speed2 == (speed * speed) \div 100
        rv2    == (rho * (speed2 \div 10)) \div 100
    IN  ((rv2 \div 10) * Area) \div 2000

\* F_drag = q * Cd and F_lift = q * Cl, in 0.1 N.
Force(q, coefficient) == TDiv(q * coefficient, 1000)

\* fx_aero = -F_drag * cos(gamma) - F_lift * sin(gamma)
FxAero(F_drag, F_lift, gamma) ==
    TDiv(-F_drag * Cos(gamma) - F_lift * Sin(gamma), 10000)

\* fy_aero = -F_drag * sin(gamma) + F_lift * cos(gamma)
FyAero(F_drag, F_lift, gamma) ==
    TDiv(-F_drag * Sin(gamma) + F_lift * Cos(gamma), 10000)

\* ax = fx_aero / Config.mass and ay = (fy_aero / Config.mass) - Config.g, with
\* the angle of attack that went into the lift coefficient.
Acceleration(p, v, db, tgt) ==
    LET speed    == Norm(v)
        mach     == Mach(speed)
        rho      == Rho(p[1].m)
        Cd       == get_cd(db, mach).v
        Cl_slope == get_cl_alpha(db, mach).v
        alpha_cmd == AlphaCmd(p, v, tgt)
        Cl       == LiftCoefficient(Cl_slope, alpha_cmd)
        q        == DynamicPressure(rho, speed)
        F_drag   == Force(q, Cd)
        F_lift   == Force(q, Cl)
        gamma    == VelAngle(v)
    IN  [x |-> TDiv(FxAero(F_drag, F_lift, gamma) * 100, Mass),
         y |-> TDiv(FyAero(F_drag, F_lift, gamma) * 100, Mass) - G,
         alpha |-> alpha_cmd]

\* Integrate as it would be with the position advanced before the velocity
\* (forward Euler).
Integrate_Forward(p, v, a, dt) ==
    [pos |-> [p EXCEPT ![0] = PosAdvance(p[0], v[0], dt),
                       ![1] = PosAdvance(p[1], v[1], dt)],
     vel |-> [v EXCEPT ![0] = v[0] + a.x * dt, ![1] = v[1] + a.y * dt]]

\* Integrate as it would be with the position advanced by the velocity without
\* the time step (pos += vel: a step of one second, 100 ticks).
Integrate_NoDt(p, v, a, dt) ==
    LET v0 == v[0] + a.x * dt
        v1 == v[1] + a.y * dt
    IN  [pos |-> [p EXCEPT ![0] = PosAdvance(p[0], v0, 100),
                           ![1] = PosAdvance(p[1], v1, 100)],
         vel |-> [v EXCEPT ![0] = v0, ![1] = v1]]

\* The Euler integration as the source writes it: the velocity first, then the
\* position from the velocity just stored.
Integrate(p, v, a, dt) ==
    LET v0 == v[0] + a.x * dt
        v1 == v[1] + a.y * dt
    IN  [pos |-> [p EXCEPT ![0] = PosAdvance(p[0], v0, dt),
                           ![1] = PosAdvance(p[1], v1, dt)],
         vel |-> [v EXCEPT ![0] = v0, ![1] = v1]]

\* update as it would be if the impact branch put the projectile on the ground.
update_SnapToGround(p, v, db, dt, tgt) ==
    IF p[1].m < 0
    THEN [flying |-> FALSE, pos |-> [p EXCEPT ![1] = Metres(0)], vel |-> v,
          target_pos |-> tgt, alpha |-> 0]
    ELSE LET a    == Acceleration(p, v, db, tgt)
             next == Integrate(p, v, a, dt)
         IN  [flying |-> TRUE, pos |-> next.pos, vel |-> next.vel,
              target_pos |-> tgt, alpha |-> a.alpha]

\* update as it would be if r_tm were computed in place (target_pos -= self.pos).
update_TargetInPlace(p, v, db, dt, tgt) ==
    IF p[1].m < 0
    THEN [flying |-> FALSE, pos |-> p, vel |-> v, target_pos |-> tgt,
          alpha |-> 0]
    ELSE LET a    == Acceleration(p, v, db, tgt)
             next == Integrate(p, v, a, dt)
         IN  [flying |-> TRUE, pos |-> next.pos, vel |-> next.vel,
              target_pos |-> RelativeTarget(tgt, p), alpha |-> a.alpha]

\* update as it would be if the altitude were read from the wrong component
\* (h = self.pos[0]).
update_AltitudeFromX(p, v, db, dt, tgt) ==
    IF p[0].m < 0
    THEN [flying |-> FALSE, pos |-> p, vel |-> v, target_pos |-> tgt,
          alpha |-> 0]
    ELSE LET a    == Acceleration(p, v, db, tgt)
             next == Integrate(p, v, a, dt)
         IN  [flying |-> TRUE, pos |-> next.pos, vel |-> next.vel,
              target_pos |-> tgt, alpha |-> a.alpha]

\* Projectile.update(dt, target_pos): the return value, self.pos and self.vel after
\* the call, the caller's target_pos array after the call (the code reads it
\* into the new array r_tm and never writes it), and the angle of attack applied
\* (0 when the call returns before the guidance).
update(p, v, db, dt, tgt) ==
    IF p[1].m < 0
    THEN [flying |-> FALSE, pos |-> p, vel |-> v, target_pos |-> tgt,
          alpha |-> 0]
    ELSE LET a    == Acceleration(p, v, db, tgt)
             next == Integrate(p, v, a, dt)
         IN  [flying |-> TRUE, pos |-> next.pos, vel |-> next.vel,
              target_pos |-> tgt, alpha |-> a.alpha]

\* ------------------------------------------------------------ inputs

\* Coefficient files: none (the fallback), a table of zero drag and zero lift, a
\* table of drag without lift, and a table of both.
ZeroFile == File(<< <<Num(1000), Num(0), Num(0), Num(0)>>,
                    <<Num(3000), Num(0), Num(0), Num(0)>> >>)
NoLiftFile == File(<< <<Num(1000), Num(0), Num(300), Num(0)>>,
                      <<Num(2000), Num(0), Num(500), Num(0)>>,
                      <<Num(3000), Num(0), Num(400), Num(0)>> >>)
TableFile == File(<< <<Num(2000), Num(0), Num(500), Num(2500)>>,
                     <<Num(1000), Num(0), Num(300), Num(1500)>>,
                     <<Num(3000), Num(0), Num(400), Num(2000)>> >>)
FlightFiles == {NoFile, ZeroFile, NoLiftFile, TableFile}

\* Targets: Config.target_pos, one above the launch altitude, one behind the
\* launch point and a little below it.
HighTarget == [i \in 0..2 |-> IF i = 0 THEN 15000 ELSE IF i = 1 THEN 6000 ELSE 0]
BehindTarget == [i \in 0..2 |-> IF i = 0 THEN -3000 ELSE IF i = 1 THEN 1900 ELSE 0]
Targets == {ConfigTarget, HighTarget, BehindTarget}

\* Time steps and time limits other than Config's, in ticks.
CoarseDt == 100
ShortMaxTime == 450
Dts == {ConfigDt, CoarseDt}
MaxTimes == {ConfigMaxTime, ShortMaxTime}

\* A configuration: Config's attributes as run_simulation reads them. The fine
\* step is run with Config's own target.
Configs ==
    {c \in [dt : Dts, max_time : MaxTimes, target_pos : Targets] :
        c.dt = ConfigDt => c.target_pos = ConfigTarget}

EmptyHistory == [x |-> <<>>, y |-> <<>>, mach |-> <<>>]

NoCall ==
    [pos |-> InitPos, vel |-> InitVel, dt |-> 0, target_pos |-> ConfigTarget,
     flying |-> TRUE, alpha |-> 0]

\* The record of a call update(dt, target_pos) that applied alpha, made in the
\* current state.
Call(dt, target_pos, alpha) ==
    [pos |-> pos, vel |-> vel, dt |-> dt, target_pos |-> target_pos,
     flying |-> flying, alpha |-> alpha]

NoQuery == [mach |-> 0, cd |-> Num(0), cl |-> Num(0)]

NoRun == [history |-> EmptyHistory, flying |-> TRUE, calls |-> 0]

\* ------------------------------------------------------------ run_simulation

Init ==
    /\ file \in FlightFiles
    /\ config \in Configs
    /\ config.dt = ConfigDt => file \in {NoFile, ZeroFile}
    /\ pc = "start"
    /\ aero = Fallback
    /\ pos = InitPos
    /\ vel = InitVel
    /\ history = EmptyHistory
    /\ t = 0
    /\ flying = TRUE
    /\ calls = 0
    /\ last = NoCall
    /\ run = 1
    /\ first = NoRun
    /\ query = NoQuery

\* missile = Projectile(); config = Config(); history = {...}; t = 0
Construct ==
    /\ pc = "start"
    /\ pc' = "loop"
    /\ aero' = AeroDatabase(file)
    /\ pos' = InitPos
    /\ vel' = InitVel
    /\ history' = EmptyHistory
    /\ t' = 0
    /\ flying' = TRUE
    /\ calls' = 0
    /\ last' = NoCall
    /\ UNCHANGED <<file, config, run, first, query>>

\* Record as it would be with the speed appended where the Mach number belongs.
Record_SpeedForMach(h, p, v) ==
    [x |-> Append(h.x, p[0]), y |-> Append(h.y, p[1]),
     mach |-> Append(h.mach, Norm(v))]

\* The sample run_simulation appends after an update that returned True.
Record(h, p, v) ==
    [x |-> Append(h.x, p[0]), y |-> Append(h.y, p[1]),
     mach |-> Append(h.mach, Mach(Norm(v)))]

\* StepFlying as it would be without t += config.dt.
StepFlying_NoTimeAdvance ==
    /\ pc = "loop"
    /\ t < config.max_time
    /\ \E r \in {update(pos, vel, aero, config.dt, config.target_pos)} :
           /\ r.flying
           /\ pos' = r.pos
           /\ vel' = r.vel
           /\ config' = [config EXCEPT !.target_pos = r.target_pos]
           /\ flying' = TRUE
           /\ history' = [x |-> Append(history.x, r.pos[0]),
                          y |-> Append(history.y, r.pos[1]),
                          mach |-> Append(history.mach, Mach(Norm(r.vel)))]
           /\ last' = Call(config.dt, config.target_pos, r.alpha)
    /\ calls' = calls + 1
    /\ UNCHANGED <<file, pc, aero, run, first, query, t>>

\* One iteration of the while loop whose update returns True: the sample is
\* recorded and t advanced.
StepFlying ==
    /\ pc = "loop"
    /\ t < config.max_time
    /\ \E r \in {update(pos, vel, aero, config.dt, config.target_pos)} :
           /\ r.flying
           /\ pos' = r.pos
           /\ vel' = r.vel
           /\ config' = [config EXCEPT !.target_pos = r.target_pos]
           /\ flying' = TRUE
           /\ history' = Record(history, r.pos, r.vel)
           /\ last' = Call(config.dt, config.target_pos, r.alpha)
    /\ t' = t + config.dt
    /\ calls' = calls + 1
    /\ UNCHANGED <<file, pc, aero, run, first, query>>

\* The iteration whose update returns False: "Impact", break, return history.
StepImpact ==
    /\ pc = "loop"
    /\ t < config.max_time
    /\ \E r \in {update(pos, vel, aero, config.dt, config.target_pos)} :
           /\ ~r.flying
           /\ pos' = r.pos
           /\ vel' = r.vel
           /\ config' = [config EXCEPT !.target_pos = r.target_pos]
           /\ flying' = FALSE
           /\ last' = Call(config.dt, config.target_pos, r.alpha)
    /\ pc' = "done"
    /\ calls' = calls + 1
    /\ UNCHANGED <<file, aero, history, t, run, first, query>>

\* The while test fails: return history.
Timeout ==
    /\ pc = "loop"
    /\ ~(t < config.max_time)
    /\ pc' = "done"
    /\ UNCHANGED <<file, config, aero, pos, vel, history, t, flying, calls, last,
                   run, first, query>>

\* run_simulation is called again in the same process.
SecondRun ==
    /\ pc = "done"
    /\ run = 1
    /\ run' = 2
    /\ first' = [history |-> history, flying |-> flying, calls |-> calls]
    /\ pc' = "start"
    /\ UNCHANGED <<file, config, aero, pos, vel, history, t, flying, calls, last,
                   query>>

Next == Construct \/ StepFlying \/ StepImpact \/ Timeout \/ SecondRun

Spec == Init /\ [][Next]_vars

\* The runs that end within ShortMaxTime ticks or take the coarse step.
InitShort == Init /\ (config.dt = CoarseDt \/ config.max_time = ShortMaxTime)

\* What every step of run_simulation does to the control state and to the count
\* of update calls: the construction enters the loop, an iteration makes one call
\* and stays in the loop or leaves it, a failed while test returns, and a second
\* run starts at the return of the first.
Progress ==
    \/ pc = "start" /\ pc' = "loop" /\ calls' = 0
    \/ pc = "loop" /\ t < config.max_time /\ calls' = calls + 1 /\ pc' \in {"loop", "done"}
    \/ pc = "loop" /\ ~(t < config.max_time) /\ pc' = "done" /\ calls' = calls
    \/ pc = "done" /\ run = 1 /\ pc' = "start" /\ calls' = calls

\* run_simulation runs to its return: no step of it waits on anything.
FairSpec == InitShort /\ [][Next]_vars /\ WF_<<pc, calls>>(Progress)

\* ------------------------------------------------------------ Projectile.update, any caller

\* Time steps a caller passes, in ticks, and the number of calls it makes.
LongDt == 1000
CallerDts == {ConfigDt, CoarseDt, LongDt}
MaxCalls == 4

DefaultConfig == [dt |-> ConfigDt, max_time |-> ConfigMaxTime, target_pos |-> ConfigTarget]

\* missile = Projectile(), then update calls with any dt and target.
InitUpdate ==
    /\ file \in FlightFiles
    /\ config = DefaultConfig
    /\ pc = "caller"
    /\ aero = AeroDatabase(file)
    /\ pos = InitPos
    /\ vel = InitVel
    /\ history = EmptyHistory
    /\ t = 0
    /\ flying = TRUE
    /\ calls = 0
    /\ last = NoCall
    /\ run = 1
    /\ first = NoRun
    /\ query = NoQuery

\* flying = missile.update(dt, target_pos)
CallUpdate ==
    /\ pc = "caller"
    /\ calls < MaxCalls
    /\ \E dt \in CallerDts, target_pos \in Targets :
          \E r \in {update(pos, vel, aero, dt, target_pos)} :
              /\ pos' = r.pos
              /\ vel' = r.vel
              /\ flying' = r.flying
              /\ last' = Call(dt, target_pos, r.alpha)
    /\ calls' = calls + 1
    /\ UNCHANGED <<file, config, pc, aero, history, t, run, first, query>>

NextUpdate == CallUpdate

SpecUpdate == InitUpdate /\ [][NextUpdate]_vars

\* ------------------------------------------------------------ AeroDatabase, any file

\* Rows a file may hold: two good rows, a row that repeats a Mach number, a row
\* with text in the Cd column, a row that lacks a column.
RowPool ==
    { <<Num(1000), Num(0), Num(300), Num(2000)>>,
      <<Num(2000), Num(0), Num(500), Num(2000)>>,
      <<Num(1000), Num(0), Num(500), Num(1000)>>,
      <<Num(3000), Num(0), NaN, Num(2000)>>,
      <<Num(3000), Num(0), Num(400)>> }

MaxRows == 3

RowSeqs == UNION {[1..n -> RowPool] : n \in 0..MaxRows}

AeroFiles == {NoFile} \cup {File(rows) : rows \in RowSeqs}

\* Mach numbers queried, in 1e-3.
MachSamples == {-500, 0, 1500, 2000, 4000}

InitAero ==
    /\ file \in AeroFiles
    /\ config = DefaultConfig
    /\ pc = "new"
    /\ aero = Fallback
    /\ pos = InitPos
    /\ vel = InitVel
    /\ history = EmptyHistory
    /\ t = 0
    /\ flying = TRUE
    /\ calls = 0
    /\ last = NoCall
    /\ run = 1
    /\ first = NoRun
    /\ query = NoQuery

\* AeroDatabase(): the try block runs through.
LoadTable ==
    /\ pc = "new"
    /\ ~LoadRaises(file)
    /\ aero' = AeroDatabase(file)
    /\ pc' = "built"
    /\ UNCHANGED <<file, config, pos, vel, history, t, flying, calls, last, run,
                   first, query>>

\* AeroDatabase(): the try block raises, the except block sets the fallback.
LoadFallback ==
    /\ pc = "new"
    /\ LoadRaises(file)
    /\ aero' = AeroDatabase(file)
    /\ pc' = "built"
    /\ UNCHANGED <<file, config, pos, vel, history, t, flying, calls, last, run,
                   first, query>>

\* get_cd(mach) and get_cl_alpha(mach)
Query ==
    /\ pc \in {"built", "queried"}
    /\ \E mach \in MachSamples :
          query' = [mach |-> mach, cd |-> get_cd(aero, mach),
                    cl |-> get_cl_alpha(aero, mach)]
    /\ pc' = "queried"
    /\ UNCHANGED <<file, config, aero, pos, vel, history, t, flying, calls, last,
                   run, first>>

NextAero == LoadTable \/ LoadFallback \/ Query

SpecAero == InitAero /\ [][NextAero]_vars

\* ------------------------------------------------------------ claims

\* The acceleration the last update call computed.
LastAcceleration == Acceleration(last.pos, last.vel, aero, last.target_pos)

\* C1, as the claim states it: an update that returns True adds a * dt to the
\* velocity and advances the position on x and y with the velocity as it was at
\* the start of the call.
C1_PositionFromOldVelocity ==
    (calls > 0 /\ flying) =>
        /\ vel[0] = last.vel[0] + LastAcceleration.x * last.dt
        /\ vel[1] = last.vel[1] + LastAcceleration.y * last.dt
        /\ \A i \in {0, 1} : pos[i] = PosAdvance(last.pos[i], last.vel[i], last.dt)

\* C1, amended: an update that returns True adds a * dt to the velocity and
\* advances the position on x and y with the velocity it has just stored, the
\* updated one; the third components are left alone.
C1_PositionFromNewVelocity ==
    (calls > 0 /\ flying) =>
        /\ vel[0] = last.vel[0] + LastAcceleration.x * last.dt
        /\ vel[1] = last.vel[1] + LastAcceleration.y * last.dt
        /\ \A i \in {0, 1} : pos[i] = PosAdvance(last.pos[i], vel[i], last.dt)
        /\ pos[2] = last.pos[2]
        /\ vel[2] = last.vel[2]

\* An update returned True and the old and the new velocity give different
\* positions.
C1_Witness ==
    /\ calls > 0
    /\ flying
    /\ vel[1] # last.vel[1]
    /\ pos[1] # PosAdvance(last.pos[1], last.vel[1], last.dt)

\* C2: update returns False exactly when the altitude is below 0 at the start of
\* the call (at altitude 0 it flies); a call that returns False leaves pos and vel
\* alone; and once a call has returned False, every later call, whatever its dt
\* and target, returns False and changes nothing.
C2_ImpactedIsAbsorbing ==
    /\ [](calls > 0 => (flying <=> ~(last.pos[1].m < 0)))
    /\ [](calls > 0 /\ ~flying => pos = last.pos /\ vel = last.vel)
    /\ [](\A dt \in CallerDts, tgt \in Targets :
             update([pos EXCEPT ![1] = Metres(0)], vel, aero, dt, tgt).flying)
    /\ [][(calls > 0 /\ ~flying) => (~flying' /\ pos' = pos /\ vel' = vel)]_vars

\* A call made after a call that returned False has returned False too.
C2_Witness ==
    /\ calls >= 2
    /\ ~flying
    /\ ~last.flying
    /\ pos[1].m < 0

\* C3: run_simulation terminates; t starts at 0 and counts the updates that
\* returned True; the loop ends at the first False or when t is no longer below
\* max_time; update is called only from the loop while no call has returned False
\* and t < max_time; the calls number at most max_time/dt (rounded up when dt does
\* not divide max_time).
C3_Terminates ==
    /\ [](pc = "loop" => <>(pc = "done"))
    /\ [][(pc = "loop" /\ pc' = "loop") =>
             (t < t' /\ t' < config.max_time + config.dt)]_vars
    /\ [](pc \in {"loop", "done"} =>
             t = (IF flying THEN calls ELSE calls - 1) * config.dt)
    /\ [](pc = "done" => (~flying \/ ~(t < config.max_time)))
    /\ [](~flying => pc # "loop")
    /\ [](calls > 0 => (calls - 1) * config.dt < config.max_time)
    /\ [](config.max_time % config.dt = 0 => calls * config.dt <= config.max_time)
    /\ [][(calls' # calls /\ pc # "start") =>
             (calls' = calls + 1 /\ pc = "loop" /\ flying /\ t < config.max_time)]_vars

\* A run that ended by timeout, after max_time/dt calls that all returned True.
C3_Witness ==
    /\ pc = "done"
    /\ flying
    /\ calls > 0
    /\ ~(t < config.max_time)

\* The number of update calls of this run that returned True.
TrueResults == IF flying THEN calls ELSE calls - 1

\* C4: the three lists of history have one length, the number of updates that
\* returned True; the last sample holds the position and |vel|/340 as the last
\* successful update left them; a step of the loop only appends, and appends
\* nothing when update returns False.
C4_HistoryAppendOnly ==
    /\ [](Len(history.x) = Len(history.y) /\ Len(history.y) = Len(history.mach))
    /\ [](pc \in {"loop", "done"} => Len(history.x) = TrueResults)
    /\ [](pc \in {"loop", "done"} /\ Len(history.x) > 0 =>
             /\ history.x[Len(history.x)] = pos[0]
             /\ history.y[Len(history.y)] = pos[1]
             /\ history.mach[Len(history.mach)] = (Norm(vel) * 10) \div 34)
    /\ [][pc = "loop" =>
             /\ Len(history'.x) >= Len(history.x)
             /\ SubSeq(history'.x, 1, Len(history.x)) = history.x
             /\ SubSeq(history'.y, 1, Len(history.y)) = history.y
             /\ SubSeq(history'.mach, 1, Len(history.mach)) = history.mach
             /\ (~flying' => history' = history)]_vars

\* A run that recorded samples and then met an update that returned False.
C4_Witness ==
    /\ pc = "done"
    /\ ~flying
    /\ calls > 1
    /\ Len(history.x) = calls - 1

\* The raw command of the last update call: 3.0 * (los_angle - vel_angle).
LastRawCommand ==
    3 * (Arctan2(last.target_pos[1] - last.pos[1].m,
                 last.target_pos[0] - last.pos[0].m)
         - Arctan2(last.vel[1], last.vel[0]))

\* C5: the angle of attack an update applies lies within 10 degrees either side of
\* 0: it is +10 degrees when the raw command is above, -10 degrees when it is
\* below, the raw command otherwise, the raw command being computed from the
\* unwrapped angle difference.
C5_AlphaWithinLimit ==
    (calls > 0 /\ flying) =>
        /\ last.alpha >= -Radians10
        /\ last.alpha <= Radians10
        /\ LastRawCommand > Radians10 => last.alpha = Radians10
        /\ LastRawCommand < -Radians10 => last.alpha = -Radians10
        /\ (LastRawCommand >= -Radians10 /\ LastRawCommand <= Radians10)
               => last.alpha = LastRawCommand

\* An update whose raw command, from an angle difference beyond pi, was above the
\* limit and was applied as +10 degrees.
C5_Witness ==
    /\ calls > 0
    /\ flying
    /\ LastRawCommand > 3 * Pi
    /\ last.alpha = Radians10

\* An update whose raw command was below the limit, and one within it.
C5_WitnessLower == calls > 0 /\ flying /\ LastRawCommand < -Radians10

C5_WitnessWithin ==
    /\ calls > 0
    /\ flying
    /\ LastRawCommand # 0
    /\ LastRawCommand > -Radians10
    /\ LastRawCommand < Radians10

\* The file cannot be loaded: it is absent, or one of its rows is malformed (it has
\* not the four columns, or a cell of it is no number).
C6_Unloadable ==
    \/ ~file.exists
    \/ \E i \in 1..Len(file.rows) :
          \/ Len(file.rows[i]) # 4
          \/ \E j \in 1..Len(file.rows[i]) : ~IsNum(file.rows[i][j])

\* C6: whatever the file, get_cd and get_cl_alpha answer with a number (no NaN, no
\* infinity), and when the file cannot be loaded they answer 0.67 and 2.0 for
\* every Mach number.
C6_FallbackOrUsable ==
    pc = "queried" =>
        /\ IsNum(query.cd)
        /\ IsNum(query.cl)
        /\ C6_Unloadable => (query.cd = Num(FallbackCd) /\ query.cl = Num(FallbackCl))

\* A file with a malformed row was loaded without an exception, and a coefficient
\* read from it is no number.
C6_Witness ==
    /\ pc = "queried"
    /\ C6_Unloadable
    /\ ~LoadRaises(file)
    /\ ~IsNum(query.cd)

\* The part of C6 the code keeps: an absent file, and a file whose rows differ in
\* their number of columns or have fewer than four, give 0.67 and 2.0 for every
\* Mach number.
C6_RaisingLoadFallsBack ==
    (pc = "queried" /\ LoadRaises(file)) =>
        (query.cd = Num(FallbackCd) /\ query.cl = Num(FallbackCl))

\* The setup of C7: zero drag and lift, Config's time step (0.01 s) and time
\* limit (100 s), launched from 2000 m at (680, 0, 0) m/s.
C7_Setup ==
    /\ file = ZeroFile
    /\ config.dt = ConfigDt
    /\ config.max_time = ConfigMaxTime

\* floor(2 * 2000 m / (9.81 m/s^2 * (0.01 s)^2)): the square of the fall time in
\* ticks, rounded down.
C7_FallTicksSquared ==
    LET h == 2000 * 1000000
    IN  2 * (h \div G) + (2 * (h % G)) \div G

\* C7: in the run of the setup the projectile is in free fall (the horizontal
\* velocity stays 680 m/s, the vertical one is -g t); the run ends by impact; the
\* first False comes from update call 2019, 2020 or 2021, and t is then within one
\* tick of sqrt(2 * 2000 / 9.81) s.
C7_BallisticImpactTime ==
    /\ (C7_Setup /\ pc \in {"loop", "done"}) =>
          /\ vel[0] = InitVel[0]
          /\ vel[1] = -G * t
    /\ (C7_Setup /\ pc = "done") =>
          /\ ~flying
          /\ calls \in 2019..2021
          /\ (t - 1) * (t - 1) <= C7_FallTicksSquared
          /\ (t + 1) * (t + 1) >= C7_FallTicksSquared + 1

\* The run of the setup has ended by impact.
C7_Witness == C7_Setup /\ pc = "done" /\ ~flying /\ calls > 2000

\* The lift-curve slope at the current Mach number is 0.
C8_ZeroSlope == get_cl_alpha(aero, Mach(Norm(vel))) = Num(0)

\* Drag against the velocity, and gravity: the acceleration without lift.
C8_DragAndGravity ==
    LET speed  == Norm(vel)
        q      == DynamicPressure(Rho(pos[1].m), speed)
        F_drag == TDiv(q * get_cd(aero, Mach(speed)).v, 1000)
        gamma  == Arctan2(vel[1], vel[0])
    IN  [x |-> TDiv(TDiv(-F_drag * Cos(gamma), 10000) * 100, Mass),
         y |-> TDiv(TDiv(-F_drag * Sin(gamma), 10000) * 100, Mass) - G]

\* C8: with a lift-curve slope of 0, update gives the same result for any two
\* targets, and the acceleration it applies is the drag, opposite to the velocity
\* on each axis, and gravity on the vertical axis.
C8_NoGuidanceWithoutLift ==
    C8_ZeroSlope =>
        \A dt \in CallerDts, t1 \in Targets, t2 \in Targets :
            LET r1 == update(pos, vel, aero, dt, t1)
                r2 == update(pos, vel, aero, dt, t2)
                a  == C8_DragAndGravity
            IN  /\ r1.flying = r2.flying
                /\ r1.pos = r2.pos
                /\ r1.vel = r2.vel
                /\ r1.flying =>
                      /\ r1.vel[0] = vel[0] + a.x * dt
                      /\ r1.vel[1] = vel[1] + a.y * dt
                      /\ vel[0] > 0 => a.x <= 0
                      /\ vel[0] < 0 => a.x >= 0
                      /\ vel[1] > 0 => a.y + G <= 0
                      /\ vel[1] < 0 => a.y + G >= 0

\* In flight with drag and a slope of 0, after a call, where two targets command
\* different angles of attack.
C8_Witness ==
    /\ calls > 0
    /\ flying
    /\ pos[1].m >= 0
    /\ C8_ZeroSlope
    /\ get_cd(aero, Mach(Norm(vel))).v > 0
    /\ AlphaCmd(pos, vel, ConfigTarget) # AlphaCmd(pos, vel, HighTarget)

\* C9: the second run of run_simulation, on the same configuration, file and
\* initial state, returns the history the first returned and ends the same way,
\* and no step of a run changes the configuration or the file.
C9_Deterministic ==
    /\ [](pc = "done" /\ run = 2 =>
             /\ history = first.history
             /\ flying = first.flying
             /\ calls = first.calls)
    /\ [][config' = config /\ file' = file]_vars

\* The second run has ended, by impact, with samples recorded.
C9_Witness ==
    /\ pc = "done"
    /\ run = 2
    /\ ~flying
    /\ Len(history.x) > 1

\* C10: every sample of history but the last has an altitude of 0 or more.
C10_OnlyLastSampleBelowGround ==
    \A k \in 1..(Len(history.y) - 1) : history.y[k].m >= 0

\* A run has ended whose last sample is below the ground.
C10_Witness ==
    /\ pc = "done"
    /\ Len(history.y) > 1
    /\ history.y[Len(history.y)].m < 0

====
